---- MODULE Spec2Model ----
(***************************************************************************)
(* Model of the SASL relay module m_sasl.c (ircd-hybrid 8.2.x module).     *)
(*                                                                         *)
(* The daemon is single-threaded and event driven: every handler runs to   *)
(* completion, so each handler is one atomic action.  The program state is *)
(* the session table, the client records the module reads and writes, the  *)
(* advertised "sasl" capability and whether the module is loaded.  "out"   *)
(* holds what the handler that ran last sent (sendto_servers, sendto_one,  *)
(* sendto_one_numeric), in order.  "ev" and "conts" are history variables: *)
(* the event that was handled last, and the number of continuations a      *)
(* client has sent since its session was opened.                           *)
(***************************************************************************)
EXTENDS Integers, Sequences, FiniteSets, TLC

VARIABLES sessions, clients, sasl_cap, loaded, out, ev, conts

vars == <<sessions, clients, sasl_cap, loaded, out, ev, conts>>

(***************************************************************************)
(* Limits.  SASL_MAX_MESSAGES and SASL_MAX_FAILURES have the values of the *)
(* source.  SASL_MAX_SESSIONS is 256 in the source; the table is modelled  *)
(* with fewer slots, and there is always one more client than slots so     *)
(* that the table can be full when a further client asks for a session.    *)
(***************************************************************************)
SASL_MAX_SESSIONS == 2
SASL_MAX_MESSAGES == 20
SASL_MAX_FAILURES == 3

\* Continuations per session the clients send in the table-wide
\* specification Spec (SpecSession has no such limit).
MaxRelay == 1

NumClients == SASL_MAX_SESSIONS + 1
Clients == 1 .. NumClients
Slots == 1 .. SASL_MAX_SESSIONS

\* struct Client * values: NULL, or one of the client records.
NULL == 0
\* A client record's id[] is empty until a UID is assigned.
NoId == 0
UIDs == 1 .. NumClients
\* session->agent[0] == '\0'
NoAgent == ""
Agents == {"AG1", "AG2"}

\* Parameters and payloads are strings, modelled as sequences of characters.
Star == <<"*">>
\* A list of two mechanisms, "PLAIN EXTERNAL", abbreviated.
PlainExternal == <<"P", " ", "E">>
PLAIN == <<"P", "L", "A", "I", "N">>
Plus == <<"+">>
NoData == <<>>
ClientParams == {Star, PLAIN, Plus}

\* A zeroed struct sasl_session (memset 0): a free slot.
ZeroSession ==
  [client |-> NULL, agent |-> NoAgent, messages |-> 0, failures |-> 0,
   complete |-> FALSE]

\* The nick, ident and host a client has before services change them, and
\* the value services set (any of the fields).
Nick == <<"n">>
Ident == <<"u">>
Host == <<"h">>
SockHost == <<"i">>
Granted == <<"x">>

\* A client record that is not in use (no such client).  local is
\* MyConnect: the client is connected to this server.
NoClient ==
  [status |-> "none", local |-> FALSE, cap |-> FALSE, id |-> NoId,
   name |-> Nick, username |-> Ident, host |-> Host, account |-> NoData]

(***************************************************************************)
(* What the handlers send.                                                 *)
(***************************************************************************)
\* sendto_servers(":%s ENCAP * SASL <uid> <agent> <kind> <data>")
ToServers(uid, agent, kind, data) ==
  [dst |-> "servers", to |-> uid, kind |-> kind, agent |-> agent,
   data |-> data]

\* sendto_one_numeric(client, &me, <num> | SND_EXPLICIT, ...)
Numeric(c, num) ==
  [dst |-> "client", to |-> c, kind |-> num, agent |-> NoAgent,
   data |-> NoData]

\* sendto_one(target, "AUTHENTICATE %s", data)
ToClient(c, data) ==
  [dst |-> "client", to |-> c, kind |-> "AUTHENTICATE", agent |-> NoAgent,
   data |-> data]

\* "%s %s", source->host, source->sockhost
HostInfo(host) == host \o SockHost
Abort == <<"A">>

(***************************************************************************)
(* Session management helpers.  A session is named by its slot; 0 is the   *)
(* NULL pointer.                                                           *)
(***************************************************************************)
Min(S) == CHOOSE x \in S : \A y \in S : x <= y

find_in(tab, client) ==
  LET hits == {i \in Slots : tab[i].client = client}
  IN  IF hits = {} THEN 0 ELSE Min(hits)

\* A scan that stops after the first slot.
find_first_slot_only(client) ==
  IF sessions[1].client = client THEN 1 ELSE 0

sasl_find_session(client) == find_in(sessions, client)

\* An allocation that reuses the first slot when none is free.
new_session_reuses_slot(client) ==
  IF find_in(sessions, NULL) = 0 THEN 1 ELSE find_in(sessions, NULL)

sasl_new_session(client) == find_in(sessions, NULL)

\* The slot sasl_new_session hands out: zeroed, then client set.
NewSession(client) == [ZeroSession EXCEPT !.client = client]

\* A clear that leaves the slot as it is.
clear_keeps_slot(tab, i) == tab

sasl_clear_session(tab, i) == [tab EXCEPT ![i] = ZeroSession]

(***************************************************************************)
(* Host daemon services the module calls.                                  *)
(***************************************************************************)
\* hash_find_id(uid): the client record with that UID, or NULL.
hash_find_id(uid) ==
  LET hits == {c \in Clients : clients[c].status # "none" /\ clients[c].id = uid}
  IN  IF hits = {} THEN NULL ELSE Min(hits)

\* while (hash_find_id((id = uid_get()))) ;  -- a UID no client has.  UIDs
\* are opaque to the module; the one generated for the client record c is
\* named c, which no other record has.
uid_get(c) == c

\* MyConnect(target): the client is a connection of this server.
MyConnect(c) == clients[c].local

HasCap(c) == clients[c].cap

LiveSlots == {i \in Slots : sessions[i].client # NULL}
HasSession(c) == sasl_find_session(c) # 0

(***************************************************************************)
(* Init: the state after init_handler has run in a daemon without clients. *)
(***************************************************************************)
Init ==
  /\ sessions = [i \in Slots |-> ZeroSession]
  /\ clients = [c \in Clients |-> NoClient]
  /\ sasl_cap = [registered |-> TRUE, mechs |-> PLAIN]
  /\ loaded = TRUE
  /\ out = <<>>
  /\ ev = "init_handler"
  /\ conts = [c \in Clients |-> 0]

(***************************************************************************)
(* The host daemon's side of a client's life: a connection is accepted,    *)
(* may negotiate the sasl capability while it is advertised, may complete  *)
(* registration (the host assigns a UID unless the module already did),    *)
(* and exits.  None of these runs code of the module except the exit hook. *)
(***************************************************************************)
Connect(c, cap) ==
  /\ clients[c].status = "none"
  /\ cap => sasl_cap.registered
  /\ clients' = [clients EXCEPT ![c] = [NoClient EXCEPT !.status = "unreg",
                                                         !.local = TRUE,
                                                         !.cap = cap]]
  /\ out' = <<>>
  /\ UNCHANGED <<sessions, sasl_cap, loaded>>

Register(c) ==
  /\ clients[c].status = "unreg"
  /\ clients' = [clients EXCEPT
                   ![c].status = "reg",
                   ![c].id = IF clients[c].id = NoId THEN uid_get(c)
                             ELSE clients[c].id]
  /\ out' = <<>>
  /\ UNCHANGED <<sessions, sasl_cap, loaded>>

(***************************************************************************)
(* Hook: clean up the session when a local client exits.  The operators    *)
(* give the hook's effect on the table and what it sends; ClientExit is    *)
(* the exit of a local client, which runs the hook while it is installed.  *)
(***************************************************************************)
\* A hook that reports the abort of every session, bound or not.
exit_hook_sends_unbound(c) ==
  LET s == sasl_find_session(c) IN
  IF s # 0
    THEN <<ToServers(clients[c].id, sessions[s].agent, "D", Abort)>>
    ELSE <<>>

exit_hook_sends(c) ==
  LET s == sasl_find_session(c) IN
  IF s # 0 /\ sessions[s].agent # NoAgent /\ clients[c].id # NoId
    THEN <<ToServers(clients[c].id, sessions[s].agent, "D", Abort)>>
    ELSE <<>>

\* A hook that notifies services but leaves the slot as it is.
exit_hook_keeps_session(c) == sessions

sasl_client_exit_hook(c) ==
  LET s == sasl_find_session(c) IN
  IF s # 0 THEN sasl_clear_session(sessions, s) ELSE sessions

ClientExit(c) ==
  /\ clients[c].status # "none"
  /\ clients[c].local
  /\ IF loaded
       THEN /\ out' = exit_hook_sends(c)
            /\ sessions' = sasl_client_exit_hook(c)
       ELSE /\ out' = <<>>
            /\ sessions' = sessions
  /\ clients' = [clients EXCEPT ![c] = NoClient]
  /\ UNCHANGED <<sasl_cap, loaded>>

(***************************************************************************)
(* AUTHENTICATE from an unregistered client.                               *)
(***************************************************************************)
\* Limit checks that are off by one, in either direction.
msg_limit_one_late(m) == m > SASL_MAX_MESSAGES + 1
msg_limit_one_early(m) == m >= SASL_MAX_MESSAGES

\* ++session->messages > SASL_MAX_MESSAGES
msg_limit_exceeded(m) == m > SASL_MAX_MESSAGES

\* A relay that never names the agent.
relay_agent_placeholder(agent) == "*"

\* session->agent[0] ? session->agent : "*"
relay_agent(agent) == IF agent # NoAgent THEN agent ELSE "*"

\* The announcement with its two messages swapped.
new_session_sends_swapped(id, host, mech) ==
  <<ToServers(id, "*", "S", mech), ToServers(id, "*", "H", HostInfo(host))>>

\* The H and S messages that announce a new session to services.
new_session_sends(id, host, mech) ==
  <<ToServers(id, "*", "H", HostInfo(host)), ToServers(id, "*", "S", mech)>>

\* D A, sent when the session has an agent (and the client a UID).
\* An abort that is reported whether or not an agent is known.
abort_sends_always(id, agent, known) == <<ToServers(id, agent, "D", Abort)>>

abort_sends(id, agent, known) ==
  IF known THEN <<ToServers(id, agent, "D", Abort)>> ELSE <<>>

mr_authenticate(source, p) ==
  /\ loaded
  /\ clients[source].status = "unreg"
  /\ UNCHANGED <<sasl_cap, loaded>>
  /\ IF ~HasCap(source)
       THEN /\ out' = <<>>
            /\ UNCHANGED <<sessions, clients>>
     ELSE IF p = Star
       THEN LET s == sasl_find_session(source) IN
            /\ sessions' = IF s # 0 THEN sasl_clear_session(sessions, s)
                           ELSE sessions
            /\ out' = (IF s # 0
                         THEN abort_sends(clients[source].id, sessions[s].agent,
                                          sessions[s].agent # NoAgent
                                            /\ clients[source].id # NoId)
                         ELSE <<>>)
                      \o <<Numeric(source, "906")>>
            /\ UNCHANGED clients
     ELSE LET id == IF clients[source].id = NoId THEN uid_get(source)
                    ELSE clients[source].id
              s == sasl_find_session(source)
          IN
          /\ clients' = [clients EXCEPT ![source].id = id]
          /\ IF s = 0
               THEN LET n == sasl_new_session(source) IN
                    IF n = 0
                      THEN /\ out' = <<Numeric(source, "904")>>
                           /\ sessions' = sessions
                      ELSE /\ sessions' =
                                [sessions EXCEPT ![n] = NewSession(source)]
                           /\ out' = new_session_sends(id, clients[source].host, p)
               ELSE LET m == sessions[s].messages + 1 IN
                    IF msg_limit_exceeded(m)
                      THEN /\ out' = <<Numeric(source, "904")>>
                                     \o abort_sends(id, sessions[s].agent,
                                                    sessions[s].agent # NoAgent)
                           /\ sessions' = sasl_clear_session(sessions, s)
                      ELSE /\ sessions' = [sessions EXCEPT ![s].messages = m]
                           /\ out' = <<ToServers(id,
                                                 relay_agent(sessions[s].agent),
                                                 "C", p)>>

\* AUTHENTICATE from a registered client: handlers[CLIENT_HANDLER] and
\* handlers[OPER_HANDLER] are m_registered, which answers 462.
m_registered(source) ==
  /\ loaded
  /\ clients[source].status = "reg"
  /\ out' = <<Numeric(source, "462")>>
  /\ UNCHANGED <<sessions, clients, sasl_cap, loaded>>

(***************************************************************************)
(* SASL ENCAP handler: responses from services.  parc is 4 when the data   *)
(* argument is missing and 5 when it is present; type is parv[3][0].       *)
(* The handler never looks at the origin of the message.                   *)
(***************************************************************************)
\* A binding that overwrites an agent already bound.
bind_agent_always(sess, agent) == [sess EXCEPT !.agent = agent]

\* if (session && session->agent[0] == '\0') strlcpy(session->agent, parv[1])
bind_agent(sess, agent) ==
  IF sess.agent = NoAgent THEN [sess EXCEPT !.agent = agent] ELSE sess

\* A failure limit that lets one more failure through.
failure_limit_one_late(f) == f > SASL_MAX_FAILURES

\* A handler that gives up at the first failure.
failure_limit_first(f) == f >= 1

\* failures >= SASL_MAX_FAILURES
failure_limit_reached(f) == f >= SASL_MAX_FAILURES

\* A test for the outcome in the wrong case of the letter.
is_success_lower_case(parc, data) ==
  parc >= 5 /\ data # NoData /\ Head(data) = "s"

\* parc >= 5 && parv[4][0] == 'S'
is_success(parc, data) == parc >= 5 /\ data # NoData /\ Head(data) = "S"

\* (parc >= n && !string_is_empty(parv[n-1])) ? parv[n-1] : NULL, then
\* cap_unregister("sasl"); cap_register(CAP_SASL, "sasl", mechs)
\* An update that takes a missing or empty list for "no change".
readvertise_keeps_on_empty(present, list) ==
  [registered |-> TRUE, mechs |-> IF present /\ list # NoData THEN list
                                  ELSE sasl_cap.mechs]

readvertise(present, list) ==
  [registered |-> TRUE, mechs |-> IF present /\ list # NoData THEN list
                                  ELSE NoData]

\* "%s %s!%s@%s %s :You are now logged in as %s": the variable part of
\* the body of numeric 900.
LoggedIn(c) ==
  clients[c].name \o <<"!">> \o clients[c].username \o <<"@">>
    \o clients[c].host \o <<" ">> \o clients[c].account

\* A lookup that hides the session from every agent but the bound one.
session_of_bound_agent(target, agent) ==
  LET s == sasl_find_session(target) IN
  IF s # 0 /\ sessions[s].agent \notin {NoAgent, agent} THEN 0 ELSE s

\* struct sasl_session *session = sasl_find_session(target): the session a
\* message of the agent parv[1] acts on is the target's, whoever the agent.
session_of(target, agent) == sasl_find_session(target)

me_sasl(parc, agent, uid, type, data) ==
  /\ loaded
  /\ UNCHANGED loaded
  /\ LET target == hash_find_id(uid) IN
     IF target = NULL \/ ~MyConnect(target)
       THEN /\ out' = <<>>
            /\ UNCHANGED <<sessions, clients, sasl_cap>>
     ELSE LET s == session_of(target, agent) IN
       CASE type = "C" ->
              /\ UNCHANGED <<clients, sasl_cap>>
              /\ IF parc < 5
                   THEN /\ out' = <<>>
                        /\ sessions' = sessions
                   ELSE /\ out' = <<ToClient(target, data)>>
                        /\ sessions' =
                             IF s # 0
                               THEN [sessions EXCEPT
                                       ![s] = bind_agent(sessions[s], agent)]
                               ELSE sessions
         [] type = "D" ->
              /\ UNCHANGED <<clients, sasl_cap>>
              /\ IF is_success(parc, data)
                   THEN /\ out' = << [Numeric(target, "900") EXCEPT
                                        !.data = LoggedIn(target)],
                                     Numeric(target, "903") >>
                        /\ sessions' = IF s # 0
                                         THEN sasl_clear_session(sessions, s)
                                         ELSE sessions
                   ELSE /\ out' = <<Numeric(target, "904")>>
                        /\ sessions' =
                             IF s = 0 THEN sessions
                             ELSE IF failure_limit_reached(
                                       sessions[s].failures + 1)
                               THEN sasl_clear_session(sessions, s)
                               ELSE [sessions EXCEPT
                                       ![s].failures = sessions[s].failures + 1]
         [] type = "L" ->
              /\ out' = <<>>
              /\ clients' = IF parc >= 5
                              THEN [clients EXCEPT ![target].account = data]
                              ELSE clients
              /\ UNCHANGED <<sessions, sasl_cap>>
         [] type = "M" ->
              /\ out' = <<>>
              /\ sasl_cap' = readvertise(parc >= 5, data)
              /\ UNCHANGED <<sessions, clients>>
         [] OTHER ->
              /\ out' = <<>>
              /\ UNCHANGED <<sessions, clients, sasl_cap>>

(***************************************************************************)
(* MECHLIST ENCAP handler.  parc is 1 when the list is missing.            *)
(***************************************************************************)
(***************************************************************************)
(* SVSLOGIN from services.  origin is what the source of the message is:   *)
(* a server, a client flagged as a service, or any other client.  The      *)
(* copies are strlcpy into the fields of the host's client structure,      *)
(* whose sizes the module does not define; the arguments of the model fit. *)
(***************************************************************************)
Origins == {"server", "service", "client"}

\* !HasFlag(source, FLAGS_SERVICE) && !IsServer(source) -> return
from_services(origin) == origin \in {"server", "service"}

\* A copy that takes the "*" of services for a value.
svs_field_no_sentinel(parc, n, arg, old) ==
  IF parc >= n THEN arg ELSE old

\* if (parc >= n && strcmp(parv[n-1], "*") != 0) strlcpy(field, parv[n-1])
svs_field(parc, n, arg, old) ==
  IF parc >= n /\ arg # Star THEN arg ELSE old

me_svslogin(origin, parc, uid, nick, ident, vhost, account) ==
  /\ loaded
  /\ out' = <<>>
  /\ UNCHANGED <<sessions, sasl_cap, loaded>>
  /\ LET target == hash_find_id(uid) IN
     IF ~from_services(origin) \/ target = NULL
       THEN clients' = clients
       ELSE clients' =
              [clients EXCEPT
                 ![target].account = svs_field(parc, 6, account, @),
                 ![target].host = svs_field(parc, 5, vhost, @),
                 ![target].username = svs_field(parc, 4, ident, @)]

(***************************************************************************)
(* Clients of other servers: the host daemon learns of them with their     *)
(* UID and forgets them when they quit.  hash_find_id finds them, and      *)
(* MyConnect is false of them; the exit hook is for local clients only.    *)
(***************************************************************************)
Introduce(c) ==
  /\ clients[c].status = "none"
  /\ clients' = [clients EXCEPT ![c] = [NoClient EXCEPT !.status = "reg",
                                                         !.id = uid_get(c)]]
  /\ out' = <<>>
  /\ UNCHANGED <<sessions, sasl_cap, loaded>>

RemoteQuit(c) ==
  /\ clients[c].status # "none"
  /\ ~clients[c].local
  /\ clients' = [clients EXCEPT ![c] = NoClient]
  /\ out' = <<>>
  /\ UNCHANGED <<sessions, sasl_cap, loaded>>

me_mechlist(parc, list) ==
  /\ loaded
  /\ sasl_cap' = readvertise(parc >= 2, list)
  /\ out' = <<>>
  /\ UNCHANGED <<sessions, clients, loaded>>

(***************************************************************************)
(* Module init / exit.                                                     *)
(***************************************************************************)
init_handler ==
  /\ ~loaded
  /\ loaded' = TRUE
  /\ sasl_cap' = [registered |-> TRUE, mechs |-> PLAIN]
  /\ out' = <<>>
  /\ UNCHANGED <<sessions, clients>>

exit_handler ==
  /\ loaded
  /\ loaded' = FALSE
  /\ sasl_cap' = [registered |-> FALSE, mechs |-> NoData]
  /\ sessions' = [i \in Slots |-> ZeroSession]
  /\ out' = <<>>
  /\ UNCHANGED clients

(***************************************************************************)
(* History variables.                                                      *)
(***************************************************************************)
\* A continuation: AUTHENTICATE with a parameter other than "*" that the
\* handler processes for a client that has a session.  An AUTHENTICATE
\* that opens a session starts the count again.
CountCont(c, p) ==
  [d \in Clients |->
     IF find_in(sessions', d) = 0 THEN 0
     ELSE IF d = c /\ HasCap(c) /\ p # Star /\ HasSession(c) THEN conts[d] + 1
     ELSE conts[d]]

\* A client without a session has no count.
KeepCount == [d \in Clients |-> IF find_in(sessions', d) = 0 THEN 0 ELSE conts[d]]

\* The clients keep to the relay budget k: no continuation is sent in a
\* session that has already relayed k.
WithinBudget(c, p, k) ==
  IF p = Star \/ ~HasSession(c) THEN TRUE
  ELSE sessions[sasl_find_session(c)].messages < k

\* SASL messages of services, <<parc, type, data>>; BareMsgs are those
\* without the data argument.
BareMsgs(types) == {<<4, t, NoData>> : t \in types}

(***************************************************************************)
(* The events of a daemon whose clients are CS, which keep to the relay    *)
(* budget k, and whose services send SASL messages of the types TY.        *)
(***************************************************************************)
DoConnect(CS) ==
  \E c \in CS, cap \in BOOLEAN :
    /\ Connect(c, cap)
    /\ ev' = "connect"
    /\ conts' = KeepCount

DoRegister(CS) ==
  \E c \in CS :
    /\ Register(c)
    /\ ev' = "register"
    /\ conts' = KeepCount

DoExit(CS) ==
  \E c \in CS :
    /\ ClientExit(c)
    /\ ev' = "exit"
    /\ conts' = KeepCount

DoAuthenticate(CS, k) ==
  \E c \in CS, p \in ClientParams :
    /\ WithinBudget(c, p, k)
    /\ mr_authenticate(c, p)
    /\ ev' = "mr_authenticate"
    /\ conts' = CountCont(c, p)

DoRegistered(CS) ==
  \E c \in CS :
    /\ m_registered(c)
    /\ ev' = "m_registered"
    /\ conts' = KeepCount

DoSasl(AG, U, MS) ==
  \E agent \in AG, uid \in U, m \in MS :
    /\ me_sasl(m[1], agent, uid, m[2], m[3])
    /\ ev' = "me_sasl"
    /\ conts' = KeepCount

DoMechlist ==
  \E parc \in {1, 2}, list \in {NoData, PLAIN, PlainExternal} :
    /\ parc = 1 => list = NoData
    /\ me_mechlist(parc, list)
    /\ ev' = "me_mechlist"
    /\ conts' = KeepCount

\* SVSLOGIN with parc arguments; an argument that is not there has no value.
SvsArgs == {Star, Granted}
Arg(parc, n) == IF parc >= n THEN SvsArgs ELSE {NoData}

DoSvslogin(OS, U) ==
  \E origin \in OS, uid \in U, parc \in 2..6 :
    \E nick \in Arg(parc, 3) \ {Star}, ident \in Arg(parc, 4),
       vhost \in Arg(parc, 5), account \in Arg(parc, 6) :
      /\ me_svslogin(origin, parc, uid, nick, ident, vhost, account)
      /\ ev' = "me_svslogin"
      /\ conts' = KeepCount

DoIntroduce(CS) ==
  \E c \in CS :
    /\ Introduce(c)
    /\ ev' = "introduce"
    /\ conts' = KeepCount

DoRemoteQuit(CS) ==
  \E c \in CS :
    /\ RemoteQuit(c)
    /\ ev' = "remote_quit"
    /\ conts' = KeepCount

DoInit ==
  /\ init_handler
  /\ ev' = "init_handler"
  /\ conts' = KeepCount

DoUnload ==
  /\ exit_handler
  /\ ev' = "exit_handler"
  /\ conts' = KeepCount

\* The session table under load: every client connects, opens a session,
\* continues it within the relay budget, aborts and exits; services
\* report success.
Next ==
  \/ DoConnect(Clients)
  \/ DoExit(Clients)
  \/ DoAuthenticate(Clients, MaxRelay)
  \/ DoSasl({"AG1"}, UIDs, {<<5, "D", <<"S">>>>})

Spec == Init /\ [][Next]_vars

\* One client's negotiation with every event of the daemon and no relay
\* budget: the counters run to their limits.  Services address the client
\* and a UID that no client has, with and without the data argument.
SessionClients == {1}
DataMsgs == {<<5, "C", Plus>>, <<5, "D", <<"S">>>>, <<5, "D", <<"F">>>>}
AllMsgs == DataMsgs \cup BareMsgs({"C", "D"})

NextSession ==
  \/ DoConnect(SessionClients)
  \/ DoRegister(SessionClients)
  \/ DoExit(SessionClients)
  \/ DoAuthenticate(SessionClients, SASL_MAX_MESSAGES + 1)
  \/ DoRegistered(SessionClients)
  \/ DoSasl(Agents, {1, 2}, AllMsgs)
  \/ DoInit
  \/ DoUnload

SpecSession == Init /\ [][NextSession]_vars

\* Two clients negotiating side by side within the relay budget, with
\* every event of the daemon; services address them and a UID that no
\* client has.
PairClients == {1, 2}

NextPair ==
  \/ DoConnect(PairClients)
  \/ DoRegister(PairClients)
  \/ DoExit(PairClients)
  \/ DoAuthenticate(PairClients, MaxRelay)
  \/ DoRegistered(PairClients)
  \/ DoSasl(Agents, {1, 2, 3}, DataMsgs)
  \/ DoInit
  \/ DoUnload

SpecPair == Init /\ [][NextPair]_vars

\* Identity: a local client and a client of another server, with SVSLOGIN
\* from every kind of origin and with every number of arguments, and SASL
\* messages of every type.  Services address the two clients, whose UIDs
\* no client has before the one negotiates and the other is introduced.
LocalClients == {1}
RemoteClients == {2}
IdentityMsgs ==
  {<<5, "C", Plus>>, <<5, "D", <<"S">>>>, <<5, "L", Granted>>,
   <<5, "M", PlainExternal>>}

NextIdentity ==
  \/ DoConnect(LocalClients)
  \/ DoExit(LocalClients)
  \/ DoAuthenticate(LocalClients, MaxRelay)
  \/ DoIntroduce(RemoteClients)
  \/ DoRemoteQuit(RemoteClients)
  \/ DoSvslogin(Origins, {1, 2})
  \/ DoSasl({"AG1"}, {1, 2}, IdentityMsgs)

SpecIdentity == Init /\ [][NextIdentity]_vars

\* Login: SVSLOGIN from every kind of origin and with every number of
\* arguments, for a local client that negotiates and a client of another
\* server.
NextLogin ==
  \/ DoConnect(LocalClients)
  \/ DoAuthenticate(LocalClients, MaxRelay)
  \/ DoIntroduce(RemoteClients)
  \/ DoSvslogin(Origins, {1, 2})

SpecLogin == Init /\ [][NextLogin]_vars

\* Services: one client negotiating while both agents send SASL messages
\* of every type, the mechanism list changes by either message, and the
\* module is unloaded and loaded again.
ServiceMsgs ==
  {<<5, "C", Plus>>, <<5, "D", <<"S">>>>, <<5, "D", <<"F">>>>,
   <<5, "L", Granted>>, <<4, "L", NoData>>,
   <<5, "M", PlainExternal>>, <<5, "M", PLAIN>>, <<5, "M", NoData>>,
   <<4, "M", NoData>>}

NextServices ==
  \/ DoConnect(LocalClients)
  \/ DoExit(LocalClients)
  \/ DoAuthenticate(LocalClients, MaxRelay)
  \/ DoSasl(Agents, {1, 2}, ServiceMsgs)
  \/ DoMechlist
  \/ DoInit
  \/ DoUnload

SpecServices == Init /\ [][NextServices]_vars

(***************************************************************************)
(* C1.  Pre-registration only: every live session belongs to a client that *)
(* has not completed registration.  The module has no part in             *)
(* registration, so a session that is open when its client registers       *)
(* stays in the table: the statement fails.                                *)
(***************************************************************************)
C1_PreRegistrationOnly ==
  \A i \in Slots :
    sessions[i].client # NULL =>
      clients[sessions[i].client].status = "unreg"

(***************************************************************************)
(* C2.  Uniqueness: no two occupied slots of the session table hold the    *)
(* same client, whatever AUTHENTICATE, services messages and exits came    *)
(* before.                                                                 *)
(***************************************************************************)
C2_Uniqueness ==
  \A i, j \in Slots :
    (i # j /\ sessions[i].client # NULL) =>
      sessions[i].client # sessions[j].client

\* The table holds two sessions, and the client of the second slot has
\* just had a continuation relayed on its session.
C2_Witness ==
  /\ ev = "mr_authenticate"
  /\ sessions[1].client # NULL
  /\ sessions[2].client # NULL
  /\ conts[sessions[2].client] >= 1

(***************************************************************************)
(* C3.  The client of every live session is a connected local client:      *)
(* once the exit hook has run for a client, the table holds no session     *)
(* for it.                                                                 *)
(***************************************************************************)
C3_SessionClientsConnected ==
  \A i \in Slots :
    sessions[i].client # NULL =>
      /\ clients[sessions[i].client].status # "none"
      /\ MyConnect(sessions[i].client)

\* A client whose session had an agent has just exited: the hook told
\* services and the client is gone from the table.
C3_Witness ==
  /\ ev = "exit"
  /\ Len(out) = 1
  /\ out[1].dst = "servers"
  /\ out[1].kind = "D"
  /\ \E c \in Clients :
       /\ uid_get(c) = out[1].to
       /\ clients[c].status = "none"
       /\ ~HasSession(c)

(***************************************************************************)
(* C4.  After every handler, each live session has 0 <= messages <= 20     *)
(* and 0 <= failures <= 3.                                                 *)
(***************************************************************************)
C4_CountersBounded ==
  \A i \in Slots :
    sessions[i].client # NULL =>
      /\ 0 <= sessions[i].messages
      /\ sessions[i].messages <= 20
      /\ 0 <= sessions[i].failures
      /\ sessions[i].failures <= 3

\* A session that has relayed the last continuation the limit allows,
\* after two failed attempts.
C4_Witness ==
  \E i \in Slots :
    /\ sessions[i].client # NULL
    /\ sessions[i].messages = SASL_MAX_MESSAGES
    /\ sessions[i].failures = SASL_MAX_FAILURES - 1
    /\ ev = "mr_authenticate"

(***************************************************************************)
(* C5.  While a session lives, its agent changes only from empty to a      *)
(* non-empty value, and only in a step that handles a services SASL        *)
(* message of type C carrying data, addressed to the session's client; the *)
(* agent bound is the one that message names.  An agent that is bound is   *)
(* therefore never replaced, whichever agent later C messages name.        *)
(***************************************************************************)
AgentChanges(i) ==
  /\ sessions[i].client # NULL
  /\ sessions'[i].client = sessions[i].client
  /\ sessions'[i].agent # sessions[i].agent

C5_AgentBoundOnce ==
  [][\A i \in Slots :
       AgentChanges(i) =>
         /\ sessions[i].agent = NoAgent
         /\ sessions'[i].agent # NoAgent
         /\ ev' = "me_sasl"
         /\ \E agent \in Agents, data \in {Plus, <<"S">>, <<"F">>} :
              /\ me_sasl(5, agent, clients[sessions[i].client].id, "C", data)
              /\ sessions'[i].agent = agent]_vars

\* A C message has just been relayed to a client whose session has an
\* agent and has already relayed a continuation to it.
C5_Witness ==
  /\ ev = "me_sasl"
  /\ \E i \in Slots :
       /\ sessions[i].client # NULL
       /\ sessions[i].agent = "AG2"
       /\ sessions[i].messages >= 1
       /\ out = <<ToClient(sessions[i].client, Plus)>>

(***************************************************************************)
(* C6.  A session comes into being in a step that sends exactly H and      *)
(* then S, both with the placeholder agent "*", and nothing else; H and S  *)
(* are sent in no other step; and a C message is sent for a client only    *)
(* in a step that found its session in the table, hence after the H/S      *)
(* pair of that session.                                                   *)
(***************************************************************************)
SendsKind(msgs, uid, kinds) ==
  \E k \in 1 .. Len(msgs) :
    msgs[k].dst = "servers" /\ msgs[k].to = uid /\ msgs[k].kind \in kinds

C6_HostInfoThenStart ==
  [][\A c \in Clients :
       LET before == find_in(sessions, c) # 0
           after == find_in(sessions', c) # 0
           id == clients'[c].id
       IN  /\ (~before /\ after) =>
                /\ Len(out') = 2
                /\ out'[1] = ToServers(id, "*", "H", HostInfo(clients[c].host))
                /\ out'[2].kind = "S" /\ out'[2].dst = "servers"
                /\ out'[2].to = id /\ out'[2].agent = "*"
                /\ id # NoId
           /\ SendsKind(out', uid_get(c), {"H", "S"}) => (~before /\ after)
           /\ SendsKind(out', uid_get(c), {"C"}) => (before /\ after)]_vars

\* A continuation has just been relayed as C for a session opened earlier.
C6_Witness ==
  /\ ev = "mr_authenticate"
  /\ Len(out) = 1
  /\ out[1].kind = "C"
  /\ \E c \in Clients : HasSession(c) /\ clients[c].id = out[1].to

(***************************************************************************)
(* C7.  Every message to services carries the agent binding of the session *)
(* at the moment of sending: D A goes to the agent bound for the session   *)
(* of that client, never to "*" and never without a bound agent; C carries *)
(* the bound agent, or "*" while none is bound; H and S carry "*".         *)
(***************************************************************************)
SessionOfUid(uid) ==
  {i \in Slots : /\ sessions[i].client # NULL
                 /\ clients[sessions[i].client].id = uid}

C7_AgentOnRelay ==
  [][\A k \in 1 .. Len(out') :
       out'[k].dst = "servers" =>
         LET m == out'[k] IN
         CASE m.kind = "D" ->
                /\ m.agent \in Agents
                /\ \E i \in SessionOfUid(m.to) : sessions[i].agent = m.agent
           [] m.kind = "C" ->
                \E i \in SessionOfUid(m.to) :
                  m.agent = IF sessions[i].agent # NoAgent
                              THEN sessions[i].agent ELSE "*"
           [] OTHER -> m.agent = "*"]_vars

\* The message limit has just ended a session that had an agent: 904 to
\* the client and D A to that agent.
C7_Witness ==
  /\ ev = "mr_authenticate"
  /\ Len(out) = 2
  /\ out[1].kind = "904"
  /\ out[2].kind = "D"
  /\ out[2].agent = "AG1"

(***************************************************************************)
(* C8.  In one session the k-th continuation (AUTHENTICATE other than "*"  *)
(* from a client that has a session) is relayed as one C message and the   *)
(* session stays, for k = 1 .. 20; the 21st is not relayed: the client     *)
(* gets 904, services get D A if and only if an agent is bound, and the    *)
(* session is cleared.  The session's counter is the number of its         *)
(* continuations, and no other event changes it while the session lives.   *)
(***************************************************************************)
Continues(c, p) ==
  /\ p # Star
  /\ clients[c].status = "unreg"
  /\ HasCap(c)
  /\ HasSession(c)
  /\ ev' = "mr_authenticate"
  /\ mr_authenticate(c, p)

C8_Relayed(c, p) ==
  LET s == sasl_find_session(c) IN
  /\ out' = <<ToServers(clients[c].id, relay_agent(sessions[s].agent), "C", p)>>
  /\ sessions'[s].client = c
  /\ sessions'[s].messages = conts[c] + 1

C8_Refused(c) ==
  LET s == sasl_find_session(c)
      bound == sessions[s].agent # NoAgent
  IN
  /\ find_in(sessions', c) = 0
  /\ \A k \in 1 .. Len(out') : out'[k].kind # "C"
  /\ out'[1] = Numeric(c, "904")
  /\ Len(out') = IF bound THEN 2 ELSE 1
  /\ bound => out'[2] = ToServers(clients[c].id, sessions[s].agent, "D", Abort)

C8_CountIsExact ==
  \A i \in Slots :
    sessions[i].client # NULL =>
      sessions[i].messages = conts[sessions[i].client]

C8_Step ==
  /\ \A c \in Clients, p \in ClientParams :
       Continues(c, p) =>
         IF conts[c] + 1 <= 20 THEN C8_Relayed(c, p) ELSE C8_Refused(c)
  /\ \A i \in Slots :
       (/\ sessions[i].client # NULL
        /\ sessions'[i].client = sessions[i].client
        /\ ev' # "mr_authenticate") =>
         sessions'[i].messages = sessions[i].messages

C8_MessageLimit == [](C8_CountIsExact) /\ [][C8_Step]_vars

\* The 21st continuation of a session that had an agent has just been
\* refused.
C8_Witness ==
  /\ ev = "mr_authenticate"
  /\ out = <<Numeric(1, "904"), ToServers(clients[1].id, "AG2", "D", Abort)>>
  /\ ~HasSession(1)

(***************************************************************************)
(* C9.  When every slot holds a live session, an AUTHENTICATE other than   *)
(* "*" from a sasl-capable unregistered client without a session creates   *)
(* no session, leaves the table as it is, sends 904 to that client and     *)
(* nothing to services; the number of live sessions never exceeds the      *)
(* capacity.                                                               *)
(***************************************************************************)
TableFull == \A i \in Slots : sessions[i].client # NULL

OpensWhenFull(c, p) ==
  /\ p # Star
  /\ clients[c].status = "unreg"
  /\ HasCap(c)
  /\ ~HasSession(c)
  /\ TableFull
  /\ ev' = "mr_authenticate"
  /\ mr_authenticate(c, p)

C9_Step ==
  (ev' = "mr_authenticate" /\ TableFull) =>
    \A c \in Clients, p \in ClientParams :
      OpensWhenFull(c, p) =>
        /\ sessions' = sessions
        /\ out' = <<Numeric(c, "904")>>

C9_WithinCapacity ==
  /\ Cardinality(LiveSlots) <= SASL_MAX_SESSIONS
  /\ Cardinality({c \in Clients : HasSession(c)}) <= SASL_MAX_SESSIONS

C9_FullTableFailsClosed == [](C9_WithinCapacity) /\ [][C9_Step]_vars

\* The table is full of other clients' sessions and a further client has
\* just been refused with 904.
C9_Witness ==
  /\ ev = "mr_authenticate"
  /\ TableFull
  /\ \E c \in Clients :
       /\ out = <<Numeric(c, "904")>>
       /\ ~HasSession(c)
       /\ clients[c].status = "unreg"
       /\ HasCap(c)

(***************************************************************************)
(* C10.  A services D message for a local target whose data does not       *)
(* start with 'S' makes the core send exactly one 904 to the target and    *)
(* nothing else.  With a session, the first and the second failure are     *)
(* counted and the session is kept as it is otherwise; the third clears    *)
(* the slot.  A sasl-capable unregistered client without a session, such   *)
(* as one whose session was just cleared, opens a fresh session with its   *)
(* next AUTHENTICATE other than "*" when a slot is free (the full table    *)
(* is the case of C9): H and S are sent, counters are zero and no agent    *)
(* is bound.                                                               *)
(***************************************************************************)
FailureData == {<<"F">>, Plus}

Fails(agent, uid, data) ==
  /\ hash_find_id(uid) # NULL
  /\ ev' = "me_sasl"
  /\ me_sasl(5, agent, uid, "D", data)

C10_Counted(uid) ==
  LET target == hash_find_id(uid)
      s == sasl_find_session(target)
  IN
  /\ out' = <<Numeric(target, "904")>>
  /\ IF s = 0 THEN sessions' = sessions
     ELSE IF sessions[s].failures + 1 \in {1, 2}
       THEN sessions' =
              [sessions EXCEPT ![s].failures = sessions[s].failures + 1]
       ELSE /\ sessions[s].failures + 1 = 3
            /\ sessions' = [sessions EXCEPT ![s] = ZeroSession]
            /\ find_in(sessions', target) = 0

Opens(c, p) ==
  /\ p # Star
  /\ clients[c].status = "unreg"
  /\ HasCap(c)
  /\ ~HasSession(c)
  /\ ~TableFull
  /\ ev' = "mr_authenticate"
  /\ mr_authenticate(c, p)

C10_Fresh(c, p) ==
  LET s == find_in(sessions', c) IN
  /\ s # 0
  /\ sessions'[s] = [ZeroSession EXCEPT !.client = c]
  /\ out' = <<ToServers(clients'[c].id, "*", "H", HostInfo(clients[c].host)),
              ToServers(clients'[c].id, "*", "S", p)>>

C10_Step ==
  /\ ev' = "me_sasl" =>
       \A agent \in Agents, uid \in UIDs, data \in FailureData :
         Fails(agent, uid, data) => C10_Counted(uid)
  /\ ev' = "mr_authenticate" =>
       \A c \in Clients, p \in ClientParams :
         Opens(c, p) => C10_Fresh(c, p)

C10_FailureBudget == [][C10_Step]_vars

\* The second failure of a session has just been reported: 904 went to
\* the client and the session is still there with its agent and count.
C10_Witness ==
  /\ ev = "me_sasl"
  /\ \E i \in Slots :
       /\ sessions[i].client # NULL
       /\ sessions[i].failures = 2
       /\ sessions[i].agent # NoAgent
       /\ sessions[i].messages = 1
       /\ out = <<Numeric(sessions[i].client, "904")>>

(***************************************************************************)
(* C11.  A SASL message of services that lacks its data argument (type C   *)
(* or D with agent, target and type only) is dropped silently: nothing is  *)
(* emitted and the session table stays as it is.  The code drops a bare C; *)
(* a bare D is not a success and is taken for a failure, so the statement  *)
(* fails.                                                                  *)
(***************************************************************************)
BareArrives(agent, uid, type) ==
  /\ hash_find_id(uid) # NULL
  /\ MyConnect(hash_find_id(uid))
  /\ me_sasl(4, agent, uid, type, NoData)

C11_Step ==
  ev' = "me_sasl" =>
    \A agent \in Agents, uid \in UIDs, type \in {"C", "D"} :
      BareArrives(agent, uid, type) =>
        /\ out' = <<>>
        /\ sessions' = sessions

C11_BareMessageDropped == [][C11_Step]_vars

(***************************************************************************)
(* C12.  A message of services (SASL of any type, or SVSLOGIN) whose       *)
(* target UID is unknown or is the UID of a client that is not locally     *)
(* connected is dropped silently: no client, no session and not the        *)
(* advertisement changes, and nothing is emitted.  me_sasl has the check;  *)
(* me_svslogin only looks the UID up, so SVSLOGIN changes the fields of a  *)
(* client of another server: the statement fails.                          *)
(***************************************************************************)
Unreachable(uid) ==
  hash_find_id(uid) = NULL \/ ~MyConnect(hash_find_id(uid))

Dropped ==
  /\ clients' = clients
  /\ sessions' = sessions
  /\ sasl_cap' = sasl_cap
  /\ out' = <<>>

SvsloginArrives(uid) ==
  \E origin \in Origins, parc \in 2..6 :
    \E nick \in Arg(parc, 3), ident \in Arg(parc, 4),
       vhost \in Arg(parc, 5), account \in Arg(parc, 6) :
      me_svslogin(origin, parc, uid, nick, ident, vhost, account)

SaslArrives(uid) ==
  \E agent \in Agents, parc \in {4, 5}, type \in {"C", "D", "L", "M"},
     data \in {NoData, Plus, <<"S">>, Granted, PlainExternal} :
    me_sasl(parc, agent, uid, type, data)

C12_Step ==
  \A uid \in UIDs :
    Unreachable(uid) =>
      /\ (ev' = "me_sasl" /\ SaslArrives(uid)) => Dropped
      /\ (ev' = "me_svslogin" /\ SvsloginArrives(uid)) => Dropped

C12_UnreachableTargetDropped == [][C12_Step]_vars

(***************************************************************************)
(* C13.  After SVSLOGIN for a client that the UID resolves to, each of the *)
(* client's username, host and account equals the ident, vhost and account *)
(* argument if the origin is a server or a service and the argument is     *)
(* present and not "*", and its value before otherwise; each field is      *)
(* decided by its own argument; the nick, every other client, the session  *)
(* table and the advertisement are not changed, and nothing is emitted.    *)
(***************************************************************************)
Decided(origin, present, arg, old) ==
  IF origin \in {"server", "service"} /\ present /\ arg # Star THEN arg
  ELSE old

C13_Outcome(t, origin, parc, ident, vhost, account) ==
  /\ clients'[t].username = Decided(origin, parc >= 4, ident,
                                     clients[t].username)
  /\ clients'[t].host = Decided(origin, parc >= 5, vhost, clients[t].host)
  /\ clients'[t].account = Decided(origin, parc >= 6, account,
                                    clients[t].account)
  /\ clients'[t].name = clients[t].name
  /\ \A d \in Clients \ {t} : clients'[d] = clients[d]
  /\ sessions' = sessions
  /\ sasl_cap' = sasl_cap
  /\ out' = <<>>

C13_Step ==
  ev' = "me_svslogin" =>
    \A uid \in UIDs :
      hash_find_id(uid) # NULL =>
        \A origin \in Origins, parc \in 2..6 :
          \A nick \in Arg(parc, 3) \ {Star}, ident \in Arg(parc, 4),
             vhost \in Arg(parc, 5), account \in Arg(parc, 6) :
            me_svslogin(origin, parc, uid, nick, ident, vhost, account) =>
              C13_Outcome(hash_find_id(uid), origin, parc, ident, vhost,
                          account)

C13_SvsloginFields == [][C13_Step]_vars

\* SVSLOGIN has just set the username and the account of a client and
\* left its host, which an earlier one had not set either.
C13_Witness ==
  /\ ev = "me_svslogin"
  /\ \E c \in Clients :
       /\ clients[c].status # "none"
       /\ clients[c].username = Granted
       /\ clients[c].host = Host
       /\ clients[c].account = Granted
       /\ clients[c].name = Nick

(***************************************************************************)
(* C14.  AUTHENTICATE "*" from a sasl-capable unregistered client: the     *)
(* handler emits exactly one 906, as the last emission; it allocates no    *)
(* session and no UID and the client has no session afterwards; D A goes   *)
(* to services, before the 906, exactly if the client had a session with   *)
(* an agent bound.  An AUTHENTICATE "*" that follows one yields the 906    *)
(* alone.                                                                  *)
(***************************************************************************)
Aborts(c) ==
  /\ clients[c].status = "unreg"
  /\ HasCap(c)
  /\ mr_authenticate(c, Star)

AgentBound(c) ==
  /\ HasSession(c)
  /\ sessions[sasl_find_session(c)].agent # NoAgent

AbortNotice(c) ==
  ToServers(clients[c].id, sessions[sasl_find_session(c)].agent, "D", Abort)

\* The last handler was AUTHENTICATE "*" of c.
JustAborted(c) ==
  /\ ev = "mr_authenticate"
  /\ out # <<>>
  /\ out[Len(out)] = Numeric(c, "906")

C14_Step ==
  ev' = "mr_authenticate" =>
    \A c \in Clients :
      Aborts(c) =>
        /\ out' = (IF AgentBound(c) THEN <<AbortNotice(c)>> ELSE <<>>)
                     \o <<Numeric(c, "906")>>
        /\ AgentBound(c) => clients[c].id # NoId
        /\ find_in(sessions', c) = 0
        /\ \A i \in Slots :
             sessions'[i].client # NULL => sessions'[i] = sessions[i]
        /\ clients' = clients
        /\ JustAborted(c) => out' = <<Numeric(c, "906")>>

C14_Abort == [][C14_Step]_vars

\* An abort of a session with an agent bound has just been handled: D A
\* went to services, then 906 to the client, which has no session.
C14_Witness ==
  /\ ev = "mr_authenticate"
  /\ Len(out) = 2
  /\ out[1].dst = "servers" /\ out[1].kind = "D" /\ out[1].data = Abort
  /\ out[1].agent \in Agents /\ out[1].to = clients[1].id
  /\ out[2] = Numeric(1, "906")
  /\ ~HasSession(1)

(***************************************************************************)
(* C15.  Exit of a local client: the core emits exactly one D A to         *)
(* services, addressed to the bound agent and with the client's UID, if    *)
(* the client has a session with an agent bound, and nothing otherwise     *)
(* (never a numeric); afterwards no session is the client's.  So an exit   *)
(* after the session was cleared in any way emits nothing.                 *)
(***************************************************************************)
Exits(c) ==
  /\ clients[c].status # "none"
  /\ clients[c].local
  /\ ClientExit(c)

C15_Step ==
  ev' = "exit" =>
    \A c \in Clients :
      Exits(c) =>
        /\ out' = IF AgentBound(c) THEN <<AbortNotice(c)>> ELSE <<>>
        /\ AgentBound(c) => clients[c].id # NoId
        /\ find_in(sessions', c) = 0

C15_Exit == [][C15_Step]_vars

\* A client with a bound session has just exited: D A is the one emission
\* and the table has no session.
C15_Witness ==
  /\ ev = "exit"
  /\ Len(out) = 1
  /\ out[1].dst = "servers" /\ out[1].kind = "D" /\ out[1].data = Abort
  /\ out[1].agent \in Agents /\ out[1].to = uid_get(1)
  /\ clients[1].status = "none"
  /\ LiveSlots = {}

(***************************************************************************)
(* C16.  D with an outcome that starts with S, for a locally connected     *)
(* target: the core emits 900 and then 903 to the target and nothing       *)
(* else, with or without a session of the target; afterwards the target    *)
(* has no session, and no D goes to services.                              *)
(***************************************************************************)
Succeeds(agent, uid) ==
  /\ hash_find_id(uid) # NULL
  /\ MyConnect(hash_find_id(uid))
  /\ me_sasl(5, agent, uid, "D", <<"S">>)

C16_Step ==
  ev' = "me_sasl" =>
    \A agent \in Agents, uid \in UIDs :
      Succeeds(agent, uid) =>
        LET target == hash_find_id(uid) IN
        /\ Len(out') = 2
        /\ out'[1].dst = "client" /\ out'[1].to = target
        /\ out'[1].kind = "900"
        /\ out'[2] = Numeric(target, "903")
        /\ find_in(sessions', target) = 0
        /\ \A i \in Slots :
             sessions[i].client # target => sessions'[i] = sessions[i]

C16_Success == [][C16_Step]_vars

\* Success has just been reported to a client in the middle of a
\* negotiation: 900 and 903 went out and its session is gone.
C16_Witness ==
  /\ ev = "me_sasl"
  /\ Len(out) = 2
  /\ out[1].kind = "900" /\ out[1].to = 1
  /\ out[2] = Numeric(1, "903")
  /\ clients[1].status = "unreg"
  /\ ~HasSession(1)

(***************************************************************************)
(* C17.  While the module is loaded the sasl capability is advertised with *)
(* the list of the most recent MECHLIST or SASL M that was handled (an M   *)
(* is handled if its target is a locally connected client), the empty set  *)
(* if that list was empty or missing, and with "PLAIN" if there was none   *)
(* since init: init advertises PLAIN, each of the two messages advertises  *)
(* its list, the same for both, and no other handler changes the           *)
(* advertisement.  Hence the same list twice is the same as once.          *)
(***************************************************************************)
Lists == {NoData, PLAIN, PlainExternal}

Advertises(present, list) ==
  sasl_cap' = [registered |-> TRUE,
               mechs |-> IF present THEN list ELSE NoData]

MechlistHandled(parc, list) ==
  /\ parc = 1 => list = NoData
  /\ me_mechlist(parc, list)

SaslMHandled(agent, uid, parc, list) ==
  /\ parc = 4 => list = NoData
  /\ hash_find_id(uid) # NULL
  /\ MyConnect(hash_find_id(uid))
  /\ me_sasl(parc, agent, uid, "M", list)

C17_Step ==
  /\ ev' = "me_mechlist" =>
       \A parc \in {1, 2}, list \in Lists :
         MechlistHandled(parc, list) => Advertises(parc >= 2, list)
  /\ ev' = "me_sasl" =>
       /\ \A agent \in Agents, uid \in UIDs, parc \in {4, 5}, list \in Lists :
            SaslMHandled(agent, uid, parc, list) =>
              Advertises(parc >= 5, list)
       /\ sasl_cap' # sasl_cap =>
            \E agent \in Agents, uid \in UIDs, parc \in {4, 5},
               list \in Lists : SaslMHandled(agent, uid, parc, list)
  /\ ev' = "init_handler" => Advertises(TRUE, PLAIN)
  /\ ev = "init_handler" => sasl_cap = [registered |-> TRUE, mechs |-> PLAIN]
  /\ ev' \notin {"me_mechlist", "me_sasl", "init_handler", "exit_handler"}
       => sasl_cap' = sasl_cap

C17_Advertisement == [][C17_Step]_vars

\* Services have just withdrawn every mechanism by a SASL M without a
\* list, while a client that saw the capability negotiates.
C17_Witness ==
  /\ ev = "me_sasl"
  /\ out = <<>>
  /\ sasl_cap = [registered |-> TRUE, mechs |-> NoData]
  /\ HasSession(1)

(***************************************************************************)
(* C18.  The life of a session.  It begins only in the AUTHENTICATE        *)
(* handler, with a parameter other than "*" from a sasl-capable            *)
(* unregistered client that has none; no message of services begins one.   *)
(* As claimed, it ends only by D success, a D failure that reaches the     *)
(* failure cap, a continuation beyond the message cap, AUTHENTICATE "*"    *)
(* or exit of its client: this fails, as unloading the module zeroes the   *)
(* table.  With the unload of the module as a sixth cause it holds.        *)
(***************************************************************************)
Begins(c) == ~HasSession(c) /\ find_in(sessions', c) # 0
Ends(c) == HasSession(c) /\ find_in(sessions', c) = 0

ByAuthenticate(c) ==
  /\ ev' = "mr_authenticate"
  /\ clients[c].status = "unreg"
  /\ HasCap(c)
  /\ \E p \in ClientParams \ {Star} : mr_authenticate(c, p)

BySuccess(c) ==
  /\ ev' = "me_sasl"
  /\ \E agent \in Agents : me_sasl(5, agent, clients[c].id, "D", <<"S">>)

ByTerminalFailure(c) ==
  /\ ev' = "me_sasl"
  /\ sessions[sasl_find_session(c)].failures + 1 = SASL_MAX_FAILURES
  /\ \E agent \in Agents, m \in {<<4, NoData>>, <<5, <<"F">>>>} :
       me_sasl(m[1], agent, clients[c].id, "D", m[2])

ByMessageCap(c) ==
  /\ ev' = "mr_authenticate"
  /\ sessions[sasl_find_session(c)].messages = SASL_MAX_MESSAGES
  /\ \E p \in ClientParams \ {Star} : mr_authenticate(c, p)

ByAbort(c) ==
  /\ ev' = "mr_authenticate"
  /\ mr_authenticate(c, Star)

ByExit(c) ==
  /\ ev' = "exit"
  /\ ClientExit(c)

ByUnload ==
  /\ ev' = "exit_handler"
  /\ exit_handler

ClaimedEnd(c) ==
  \/ BySuccess(c)
  \/ ByTerminalFailure(c)
  \/ ByMessageCap(c)
  \/ ByAbort(c)
  \/ ByExit(c)

\* The statement with the five causes, which the unload of the module
\* violates.
C18_FiveCauses ==
  [][\A c \in Clients :
       /\ Begins(c) => ByAuthenticate(c)
       /\ Ends(c) => ClaimedEnd(c)]_vars

\* C18, amended: the five causes or the unload of the module.
C18_Lifecycle ==
  [][\A c \in Clients :
       /\ Begins(c) => ByAuthenticate(c)
       /\ Ends(c) => (ClaimedEnd(c) \/ ByUnload)]_vars

\* A session has just ended at the message cap: 904 went to the client
\* and D A to the bound agent.
C18_Witness ==
  /\ ev = "mr_authenticate"
  /\ Len(out) = 2
  /\ out[1] = Numeric(1, "904")
  /\ out[2].dst = "servers" /\ out[2].kind = "D" /\ out[2].data = Abort
  /\ ~HasSession(1)

(***************************************************************************)
(* C19.  D A goes to services at most once in the life of a session: a     *)
(* handler sends at most one, only on AUTHENTICATE "*", on a continuation  *)
(* beyond the message cap or on exit of the client, for the client's       *)
(* session and to its bound agent, and that session ends in the same       *)
(* step.  The handler of services' messages sends nothing to services, so  *)
(* no D A follows a D success or a terminal D failure.                     *)
(***************************************************************************)
AbortNotices(msgs) ==
  {k \in 1 .. Len(msgs) :
     msgs[k].dst = "servers" /\ msgs[k].kind = "D" /\ msgs[k].data = Abort}

C19_Step ==
  /\ ev' = "me_sasl" => \A k \in 1 .. Len(out') : out'[k].dst = "client"
  /\ \A k \in AbortNotices(out') :
       /\ AbortNotices(out') = {k}
       /\ \E c \in Clients :
            /\ AgentBound(c)
            /\ out'[k] = AbortNotice(c)
            /\ Ends(c)
            /\ ByAbort(c) \/ ByMessageCap(c) \/ ByExit(c)

C19_OneAbortNotice == [][C19_Step]_vars

\* One D A has just gone to services and the table has no session.
C19_Witness ==
  /\ ev \in {"mr_authenticate", "exit"}
  /\ Cardinality(AbortNotices(out)) = 1
  /\ LiveSlots = {}

(***************************************************************************)
(* C20.  The agent named by a SASL message of services has no part in its  *)
(* effect.  The handler is a function of the state and the arguments, so   *)
(* two runs from one state that differ in the agent only are compared in   *)
(* one step: a step that handles a D, L or M of one agent is also the      *)
(* step that handles the same message of any other agent (same emissions,  *)
(* same table, same client fields, same advertisement), and what a C       *)
(* relays to the client is given by the target and the data alone.         *)
(***************************************************************************)
Payloads == {NoData, <<"S">>, <<"F">>, Granted, PLAIN, PlainExternal}

C20_Relay(uid, parc, data) ==
  IF Unreachable(uid) \/ parc < 5 THEN <<>>
  ELSE <<ToClient(hash_find_id(uid), data)>>

C20_Step ==
  ev' = "me_sasl" =>
    \A a1 \in Agents, uid \in UIDs, parc \in {4, 5} :
      /\ \A type \in {"D", "L", "M"}, data \in Payloads :
           me_sasl(parc, a1, uid, type, data) =>
             \A a2 \in Agents : me_sasl(parc, a2, uid, type, data)
      /\ \A data \in {NoData, Plus} :
           me_sasl(parc, a1, uid, "C", data) =>
             out' = C20_Relay(uid, parc, data)

C20_AgentIgnored == [][C20_Step]_vars

\* A failure has just been counted for a session that is bound to an
\* agent, whichever agent reported it.
C20_Witness ==
  /\ ev = "me_sasl"
  /\ out = <<Numeric(1, "904")>>
  /\ AgentBound(1)
  /\ sessions[sasl_find_session(1)].failures = 2

====
